---- MODULE Spec2Model ----
(***************************************************************************)
(* Verification model of tweakcn-switcher.                                 *)
(*                                                                         *)
(*  - SpecCtl : the useTweakcnSwitcher controller (hook), the Applier      *)
(*              applyThemeFromRegistry, localStorage and the document.     *)
(*  - SpecReg : the ThemeRegistry client (cache + network requests).       *)
(*  - SpecProv: the ThemeProvider selection state (theme, storage).        *)
(*                                                                         *)
(* Granularity: one action per browser task (an API call / click, a        *)
(* network completion, a font-link load event).  Promise continuations     *)
(* that need no network run inside the task that enables them; React's     *)
(* re-render and its effects run at the end of the task (Commit).  The one *)
(* continuation kept as a state of its own is an Applier invocation that   *)
(* awaits an already present font link: it is a microtask, and no task     *)
(* may run before it (NoMicro).                                            *)
(***************************************************************************)
EXTENDS Integers, Sequences, FiniteSets, TLC

None == "none"
\* null / undefined for record-valued state
Absent == [absent |-> TRUE]
\* a localStorage value that JSON.parse rejects
Corrupt == [corrupt |-> TRUE]

(***************************************************************************)
(* Bounds                                                                  *)
(***************************************************************************)
MaxClock == 1
MaxFontStyles == 3
MaxAddInFlight == 1
MaxNet == 2
MaxRegInFlight == 2
HistLen == 3

(***************************************************************************)
(* Input universe                                                          *)
(***************************************************************************)
\* Strings handed to applyTheme / addTheme:
\*   uA     : a well-formed https URL of a theme JSON resource
\*   css1   : CSS text (":root { --background: ... } .dark { ... }")
\*   bad    : a string that is neither ("ftp://x.com/a.json")
Inputs == {"uA", "css1", "bad"}
Modes == {"light", "dark"}
Keys == {"font-sans", "radius", "background"}

\* Further strings, handed to applyTheme / addTheme in SpecUrl:
\*   ""       : the empty string
\*   badpct   : "https://x.com/%zz" (decodeURIComponent throws)
\*   nourl    : "not a url" (the URL constructor throws)
UrlInputs == {"uA", "uA2", "", "badpct", "nourl", "bad"}

\* utils.ts validateUrl, evaluated on the input universe
validateUrl(x) ==
  IF x \in {"uA", "uA2", "uB"} THEN [valid |-> TRUE, error |-> None]
  ELSE IF x = "" THEN [valid |-> FALSE, error |-> "URL cannot be empty"]
  ELSE IF x = "badpct"
       THEN [valid |-> FALSE,
             error |-> "Invalid URL: contains malformed characters. Please check the URL and try again."]
  ELSE IF x = "bad"
       THEN [valid |-> FALSE, error |-> "URL must use http or https protocol"]
  ELSE [valid |-> FALSE,
        error |-> "Invalid URL format. Please enter a valid URL (e.g., https://example.com/theme.json)"]

\* faulty variant: the request is made without validating the URL
fetchValidationSkipped(x) == [valid |-> TRUE, error |-> None]

\* utils.ts fetchThemeFromUrl, lines 301-305: the validation that precedes
\* the request (normalizeTweakcnUrl leaves the strings of the universe as
\* they are: none is a tweakcn.com editor URL)
fetchValidation(x) == validateUrl(x)

\* utils.ts isCssCode: not a valid URL and carries a CSS marker
isCssCode(x) ==
  IF validateUrl(x).valid THEN FALSE ELSE x \in {"css1"}

\* keys with a theme-level prefix (font-, radius, shadow, tracking-, spacing)
ThemeLevelKey(k) == k \in {"font-sans", "radius"}

NoVars == [k \in Keys |-> None]

\* The JSON document served for a URL (wire format: name, cssVars, css).
\* uA defines font-sans, a mode-scope key with a theme-level prefix and an
\* "@layer base" rule-set; uA2 is a second address serving a document with
\* the same name; uB defines neither.
RemoteTheme(x) ==
  IF x \in {"uA", "uA2"} THEN
    [name |-> "pa",
     theme |-> [NoVars EXCEPT !["font-sans"] = "Inter", !["radius"] = "r1"],
     light |-> [NoVars EXCEPT !["background"] = "a-light", !["radius"] = "r9"],
     dark  |-> [NoVars EXCEPT !["background"] = "a-dark"],
     css |-> "baseA"]
  ELSE
    [name |-> "pb",
     theme |-> [NoVars EXCEPT !["radius"] = "r2"],
     light |-> [NoVars EXCEPT !["background"] = "b-light"],
     dark  |-> [NoVars EXCEPT !["background"] = "b-dark"],
     css |-> None]

\* The declarations of a CSS text, per block (first ":root", first ".dark",
\* first "@theme inline").  css1 is
\*   :root { --background: c-light; }  .dark { --background: c-dark; --radius: c-round; }
CssSource(x) ==
  [root   |-> [NoVars EXCEPT !["background"] = "c-light"],
   dark   |-> [NoVars EXCEPT !["background"] = "c-dark", !["radius"] = "c-round"],
   inline |-> NoVars]

\* utils.ts parseCssToThemeRegistryItem: ":root" declarations go to the
\* theme scope (theme-level prefix) or the light scope; ".dark" declarations
\* go to the dark scope unless their key has a theme-level prefix; "@theme
\* inline" declarations go to the theme scope (theme-level prefix, written
\* after the ":root" ones) or to the "@layer base" rule-set
parseCssToThemeRegistryItem(x, name) ==
  LET src == CssSource(x)
  IN [name |-> name,
      theme |-> [k \in Keys |->
                   IF ~ThemeLevelKey(k) THEN None
                   ELSE IF src.inline[k] # None THEN src.inline[k] ELSE src.root[k]],
      light |-> [k \in Keys |-> IF ThemeLevelKey(k) THEN None ELSE src.root[k]],
      dark  |-> [k \in Keys |-> IF ThemeLevelKey(k) THEN None ELSE src.dark[k]],
      css |-> IF \E k \in Keys : ~ThemeLevelKey(k) /\ src.inline[k] # None
              THEN "base-of-" \o x ELSE None]

(***************************************************************************)
(* The document (DOM) and the Applier                                      *)
(***************************************************************************)
\* vars       : custom properties set on the root element's style
\* fontStyles : <style data-tweakcn-switcher-font-vars> elements, in order
\* aux        : <style data-tweakcn-switcher> elements, in order
\* links      : <link data-tweakcn-switcher-font> elements (by font family)
\* dark       : the root element carries the class "dark"
EmptyDom ==
  [vars |-> NoVars, fontStyles |-> <<>>, aux |-> <<>>, links |-> {}, dark |-> FALSE]

\* the font-sans value tracked by the theme-scope loop (null when absent)
FontSansValue(p) == p.theme["font-sans"]

\* modeVars = cssVars[mode]: undefined (no tokens) for any other string
ModeVars(p, m) == IF m = "dark" THEN p.dark ELSE IF m = "light" THEN p.light ELSE NoVars

\* faulty variant: the existing override stylesheet is left in place
RemoveExistingFontStyleNone(d) == d

\* document.querySelector(...font-vars...)?.remove(): the first one only
RemoveExistingFontStyle(d) ==
  [d EXCEPT !.fontStyles = IF @ = <<>> THEN @ ELSE Tail(@)]

\* faulty variant: a key the theme scope lacks is removed from the root
ApplyThemeScopeClearing(d, p) == [d EXCEPT !.vars = p.theme]

\* every theme-scope token becomes a root custom property
ApplyThemeScope(d, p) ==
  [d EXCEPT !.vars = [k \in Keys |-> IF p.theme[k] # None THEN p.theme[k] ELSE @[k]]]

\* mode-scope tokens, skipping keys with a theme-level prefix
ApplyModeScope(d, p, m) ==
  [d EXCEPT !.vars = [k \in Keys |->
      IF ModeVars(p, m)[k] # None /\ ~ThemeLevelKey(k) THEN ModeVars(p, m)[k] ELSE @[k]]]

\* faulty variant: the new stylesheet is appended next to the old ones
ApplyLayerBaseKeepsOld(d, p) ==
  IF p.css # None THEN [d EXCEPT !.aux = Append(@, p.css)] ELSE d

\* the "@layer base" block: remove every generated stylesheet, append one
ApplyLayerBase(d, p) ==
  IF p.css # None THEN [d EXCEPT !.aux = Append(<<>>, p.css)] ELSE d

\* faulty variant: the class is added for dark and never removed
ToggleDarkAddOnly(d, m) == [d EXCEPT !.dark = @ \/ (m = "dark")]

\* classList.add / remove "dark"
ToggleDark(d, m) == [d EXCEPT !.dark = (m = "dark")]

\* lines 130-135 and 151-158: with font-sans, loadGoogleFont (the link is
\* found, or appended and awaited); without, removeFontLinks
FontBranchStart(d, p) ==
  LET f == FontSansValue(p)
  IN IF f # None
     THEN IF f \in d.links
          THEN [dom |-> d, wait |-> "micro"]
          ELSE [dom |-> [d EXCEPT !.links = @ \cup {f}], wait |-> "net"]
     ELSE [dom |-> [d EXCEPT !.links = {}], wait |-> "sync"]

\* lines 137-150: after the await, the override stylesheet is appended
FontBranchFinish(d, p) ==
  LET f == FontSansValue(p)
  IN IF f # None THEN [d EXCEPT !.fontStyles = Append(@, f)] ELSE d

\* applyThemeFromRegistry up to its await: returns the document and how the
\* invocation continues: "sync" (no font-sans: no await at all), "micro"
\* (font link already in the document: loadGoogleFont resolves at once) or
\* "net" (a new link was appended; resumes on its load/error event).
ApplierStart(d, p) == FontBranchStart(ApplyThemeScope(RemoveExistingFontStyle(d), p), p)

\* applyThemeFromRegistry after the font branch: override stylesheet (when
\* font-sans is set), mode-scope tokens, auxiliary stylesheet, class toggle
ApplierFinish(d, p, m) ==
  ToggleDark(ApplyLayerBase(ApplyModeScope(FontBranchFinish(d, p), p, m), p), m)

(***************************************************************************)
(* The backing store (window.localStorage)                                 *)
(***************************************************************************)
\* lsKind  : the backing store: "ok" (localStorage works), "absent" (no
\*           window: not a browser), "throws" (every localStorage method
\*           throws: access denied) or "full" (setItem throws
\*           QuotaExceededError; getItem and removeItem work)
\* lsValue : the raw string stored under the key, or None
\* stEv    : the last adapter call: operation, argument, the raw value
\*           before it, what it returned, whether it threw
VARIABLES lsKind, lsValue, stEv

storeVars == <<lsKind, lsValue, stEv>>

\* the message of the DOMException setItem throws when the store is full
QuotaError == "QuotaExceededError"

(***************************************************************************)
(* useTweakcnSwitcher: state                                               *)
(***************************************************************************)
VARIABLES
  persist,          \* config.persist
  themes,           \* useState: the catalog (sequence of ThemeOption)
  currentTheme,     \* useState: ThemeOption or NoOption
  isLoading,        \* useState
  error,            \* useState: message or None
  mode,             \* useState: resolved mode
  currentRegistryItem, \* useState: the resolved preset or Absent
  modeRef,          \* useRef mirror of mode
  isApplyingRef,    \* useRef: the Resolving guard
  mounted,          \* the mount effects have run (isInitialMount consumed)
  storage,          \* localStorage[storageKey]: Absent, Corrupt or a record
  dom,              \* the document
  sel,              \* the accepted applyTheme call in flight, or Absent
  adds,             \* addTheme calls awaiting their fetch
  applies,          \* Applier invocations in progress (suspended at await)
  clock,            \* Date.now()
  ev                \* history: the last call / completion and its outcome

ctlVars == <<persist, themes, currentTheme, isLoading, error, mode,
             currentRegistryItem, modeRef, isApplyingRef, mounted, storage,
             dom, sel, adds, applies, clock, ev>>

\* the controller state as one value, for composing handler code with the
\* re-render that follows it; log collects the Applier invocations started
\* during the task (history only)
S ==
  [persist |-> persist, themes |-> themes, currentTheme |-> currentTheme,
   isLoading |-> isLoading, error |-> error, mode |-> mode,
   item |-> currentRegistryItem, modeRef |-> modeRef,
   isApplyingRef |-> isApplyingRef, storage |-> storage, dom |-> dom,
   sel |-> sel, adds |-> adds, applies |-> applies, clock |-> clock,
   log |-> <<>>]

Install(F) ==
  /\ Len(F.dom.fontStyles) <= MaxFontStyles
  /\ persist' = F.persist
  /\ themes' = F.themes
  /\ currentTheme' = F.currentTheme
  /\ isLoading' = F.isLoading
  /\ error' = F.error
  /\ mode' = F.mode
  /\ currentRegistryItem' = F.item
  /\ modeRef' = F.modeRef
  /\ isApplyingRef' = F.isApplyingRef
  /\ storage' = F.storage
  /\ dom' = F.dom
  /\ sel' = F.sel
  /\ adds' = F.adds
  /\ applies' = F.applies
  /\ clock' = F.clock

Range(q) == {q[i] : i \in 1..Len(q)}
RemoveAt(q, i) == SubSeq(q, 1, i - 1) \o SubSeq(q, i + 1, Len(q))

\* currentTheme === null
NoOption == [id |-> <<>>, name |-> None, url |-> None, css |-> None]
UrlOption(id, name, x) == [id |-> id, name |-> name, url |-> x, css |-> None]
CssOption(id, name, x) == [id |-> id, name |-> name, url |-> None, css |-> x]

\* faulty variant: the url field is written for CSS text too
PersistedRecordBoth(x, m, name) ==
  [url |-> x, css |-> IF isCssCode(x) THEN x ELSE None, mode |-> m, name |-> name]

\* the record applyTheme writes to localStorage
PersistedRecord(x, m, name) ==
  [url |-> IF isCssCode(x) THEN None ELSE x,
   css |-> IF isCssCode(x) THEN x ELSE None,
   mode |-> m, name |-> name]

\* (t.url && t.url === urlOrCss) || (t.css && t.css === urlOrCss)
SameContent(t, x) == (t.url # None /\ t.url = x) \/ (t.css # None /\ t.css = x)

HasContent(q, x) == \E i \in 1..Len(q) : SameContent(q[i], x)
FindContent(q, x) == q[CHOOSE i \in 1..Len(q) :
                         SameContent(q[i], x) /\ \A j \in 1..(i - 1) : ~SameContent(q[j], x)]

\* an Applier invocation was started: a history entry
Invocation(owner, p, m) == [owner |-> owner, item |-> p.name, mode |-> m]

(***************************************************************************)
(* useTweakcnSwitcher: the mode effect and the re-render                   *)
(***************************************************************************)
\* the mode effect's localStorage update
ModeEffectPersist(F) ==
  IF F.persist /\ F.currentTheme # NoOption /\ F.storage # Absent /\ F.storage # Corrupt
     /\ lsKind # "full"
  THEN [F EXCEPT !.storage =
          [@ EXCEPT !.mode = F.mode,
                    !.css = IF F.currentTheme.css # None THEN F.currentTheme.css ELSE @,
                    !.url = IF F.currentTheme.url # None THEN F.currentTheme.url ELSE @]]
  ELSE F

\* the mode effect body: an Applier invocation for (currentRegistryItem,
\* mode), not awaited, then the localStorage update
ModeEffect(F) ==
  IF F.item = Absent THEN F
  ELSE LET st == ApplierStart(F.dom, F.item)
           F0 == [F EXCEPT !.log = Append(@, Invocation("effect", F.item, F.mode))]
           F1 == IF st.wait = "sync"
                 THEN [F0 EXCEPT !.dom = ApplierFinish(st.dom, F.item, F.mode)]
                 ELSE [F0 EXCEPT !.dom = st.dom,
                                 !.applies = Append(@, [owner |-> "effect", item |-> F.item,
                                                        mode |-> F.mode, wait |-> st.wait])]
       IN ModeEffectPersist(F1)

\* faulty variant: the mode effect is skipped while the Resolving guard is held
CommitGuarded(pre, post, itemSet) ==
  LET F == [post EXCEPT !.modeRef = post.mode]
      changed == \/ post.mode # pre.mode
                 \/ itemSet
                 \/ post.item # pre.item
                 \/ post.currentTheme # pre.currentTheme
  IN IF changed /\ ~post.isApplyingRef THEN ModeEffect(F) ELSE F

\* React re-render after a task: the modeRef effect, then the mode effect
\* when one of its dependencies (mode, currentRegistryItem, currentTheme)
\* changed.  itemSet: setCurrentRegistryItem was called with a fresh object.
Commit(pre, post, itemSet) ==
  LET F == [post EXCEPT !.modeRef = post.mode]
      changed == \/ post.mode # pre.mode
                 \/ itemSet
                 \/ post.item # pre.item
                 \/ post.currentTheme # pre.currentTheme
  IN IF changed THEN ModeEffect(F) ELSE F

(***************************************************************************)
(* useTweakcnSwitcher: applyTheme                                          *)
(***************************************************************************)
\* faulty variant: the guard is never taken
ApplyGuardOff(F) == FALSE

\* line 70: the Resolving guard
ApplyGuard(F) == F.isApplyingRef

\* faulty variant: the catch block also resets what the Applier wrote
applyThemeCatchRollback(F, msg) == [F EXCEPT !.error = msg, !.dom = EmptyDom]

\* catch (lines 136-139): the message goes to the error field; the error is
\* not re-thrown, so the promise returned by applyTheme is fulfilled
applyThemeCatch(F, msg) == [F EXCEPT !.error = msg]
applyThemeSettledOnError == "fulfilled"

\* faulty variant: the finally block leaves the guard and the flag set
applyThemeFinallySkipped(F) == [F EXCEPT !.sel = Absent]

\* finally (lines 140-143)
applyThemeFinally(F) ==
  [F EXCEPT !.isLoading = FALSE, !.isApplyingRef = FALSE, !.sel = Absent]

\* faulty variant: the new option becomes the selection without a look at
\* the catalog
SelectInCatalogDetached(F, x, option) ==
  [F EXCEPT !.currentTheme = option]

\* lines 111-123: setThemes / setCurrentTheme
SelectInCatalog(F, x, option) ==
  IF HasContent(F.themes, x)
  THEN [F EXCEPT !.currentTheme = FindContent(F.themes, x)]
  ELSE [F EXCEPT !.themes = Append(@, option), !.currentTheme = option]

\* line 127: localStorage.setItem throws
PersistThrows(F) == F.persist /\ lsKind = "full"

\* lines 125-135: persist; the write sits inside the try of lines 77-136
PersistSelection(F, x, currentMode, name) ==
  IF ~F.persist THEN F
  ELSE IF PersistThrows(F) THEN applyThemeCatch(F, QuotaError)
  ELSE [F EXCEPT !.storage = PersistedRecord(x, currentMode, name)]

\* lines 111-143: what runs once the Applier invocation has completed
applyThemeTail(F, x, option, currentMode) ==
  applyThemeFinally(
    PersistSelection(SelectInCatalog(F, x, option), x, currentMode, option.name))

\* lines 107-109 (and on): the preset is known
applyThemeResolved(F, x, override, itemv, option) ==
  LET currentMode == IF override # None THEN override ELSE F.modeRef
      st == ApplierStart(F.dom, itemv)
      F1 == [F EXCEPT !.item = itemv,
                      !.log = Append(@, Invocation("select", itemv, currentMode))]
  IN IF st.wait = "net"
     THEN [F1 EXCEPT !.dom = st.dom,
                     !.applies = Append(@, [owner |-> "select", item |-> itemv,
                                            mode |-> currentMode, wait |-> "net"]),
                     !.sel = [arg |-> x, override |-> override, pc |-> "apply",
                              option |-> option, mode |-> currentMode]]
     ELSE applyThemeTail([F1 EXCEPT !.dom = ApplierFinish(st.dom, itemv, currentMode)],
                         x, option, currentMode)

\* lines 73-105: an accepted call, up to its first network await.
\* t is Date.now().
applyThemeAccepted(F, x, override, t) ==
  LET F0 == [F EXCEPT !.isApplyingRef = TRUE, !.isLoading = TRUE, !.error = None]
  IN IF isCssCode(x)
     THEN LET itemv == parseCssToThemeRegistryItem(x, "custom-css-theme")
          IN applyThemeResolved([F0 EXCEPT !.clock = t], x, override, itemv,
                                CssOption(<<"css-theme", ToString(t)>>, itemv.name, x))
     ELSE \* fetchThemeFromUrl: validation precedes the request
          IF ~fetchValidation(x).valid
          THEN applyThemeFinally(applyThemeCatch(F0, fetchValidation(x).error))
          ELSE [F0 EXCEPT !.sel = [arg |-> x, override |-> override, pc |-> "fetch",
                                   option |-> NoOption, mode |-> None]]

\* the promise of a call that ended in res
Settled(res) ==
  IF res = "pending" THEN "pending"
  ELSE IF res = "failed" THEN applyThemeSettledOnError ELSE "fulfilled"

\* applyTheme(urlOrCss, overrideMode)
applyThemeCall(F, x, override, t) ==
  IF ApplyGuard(F) THEN F ELSE applyThemeAccepted(F, x, override, t)

\* how a call to applyTheme ended, for the history variable
CallResult(pre, post) ==
  IF ApplyGuard(pre) THEN "dropped"
  ELSE IF post.sel # Absent THEN "pending"
  ELSE IF post.error # None THEN "failed" ELSE "applied"

NoMicro == \A i \in 1..Len(applies) : applies[i].wait # "micro"

Event(op, arg, id, res, settled, log) ==
  [op |-> op, arg |-> arg, id |-> id, res |-> res, settled |-> settled, log |-> log]

HttpError == "Failed to fetch theme: Not Found (404)"
TransportError == "Network error: Unable to fetch theme. Please check your connection and the URL."
FetchOutcomes == {"ok", "http", "network"}
FetchErrorMessage(o) == IF o = "http" THEN HttpError ELSE TransportError

(***************************************************************************)
(* useTweakcnSwitcher: construction and the mount effect                   *)
(***************************************************************************)
DefaultA == UrlOption(<<"user", "a">>, "A", "uA")

\* what localStorage may hold when the hook mounts
InitialStorage ==
  {Absent, Corrupt,
   [url |-> "uA", css |-> None, mode |-> "dark", name |-> "pa"],
   [url |-> None, css |-> "css1", mode |-> "light", name |-> "custom-css-theme"],
   [url |-> None, css |-> "css1", mode |-> "system", name |-> "custom-css-theme"],
   [url |-> "bad", css |-> None, mode |-> "dark", name |-> "x"]}

\* faulty variant: a record that does not parse is left in storage
loadPersistedKeepsCorrupt(F, t) ==
  IF ~F.persist \/ F.storage = Absent \/ F.storage = Corrupt THEN F
  ELSE LET sv == F.storage
           F1 == IF sv.mode # None THEN [F EXCEPT !.mode = sv.mode] ELSE F
       IN IF sv.css # None THEN applyThemeCall(F1, sv.css, sv.mode, t)
          ELSE IF sv.url # None
               THEN IF validateUrl(sv.url).valid
                    THEN applyThemeCall(F1, sv.url, sv.mode, t)
                    ELSE [F1 EXCEPT !.storage = Absent]
               ELSE F1

\* lines 149-193: load the persisted theme
loadPersisted(F, t) ==
  IF ~F.persist \/ F.storage = Absent THEN F
  ELSE IF F.storage = Corrupt THEN [F EXCEPT !.storage = Absent]
  ELSE LET sv == F.storage
           F1 == IF sv.mode # None THEN [F EXCEPT !.mode = sv.mode] ELSE F
       IN IF sv.css # None THEN applyThemeCall(F1, sv.css, sv.mode, t)
          ELSE IF sv.url # None
               THEN IF validateUrl(sv.url).valid
                    THEN applyThemeCall(F1, sv.url, sv.mode, t)
                    ELSE [F1 EXCEPT !.storage = Absent]
               ELSE F1

InitCtl ==
  /\ persist \in BOOLEAN
  /\ themes \in {<<>>, <<DefaultA>>}
  /\ currentTheme = NoOption
  /\ isLoading = FALSE
  /\ error = None
  /\ mode = "light"
  /\ currentRegistryItem = Absent
  /\ modeRef = "light"
  /\ isApplyingRef = FALSE
  /\ mounted = FALSE
  /\ storage \in InitialStorage
  /\ (~persist => storage = Absent)
  /\ dom = EmptyDom
  /\ sel = Absent
  /\ adds = <<>>
  /\ applies = <<>>
  /\ clock = 0
  /\ ev = Event("init", None, <<>>, None, None, <<>>)

\* one task: handler result `post`, then the re-render; e is its history entry
Task(post, itemSet, e) ==
  LET fin == Commit(S, post, itemSet)
  IN /\ Install(fin)
     /\ ev' = [e EXCEPT !.log = fin.log]

StoredContent(sv) ==
  IF sv = Absent \/ sv = Corrupt THEN None
  ELSE IF sv.css # None THEN sv.css ELSE sv.url

Mount ==
  /\ ~mounted
  /\ mounted' = TRUE
  /\ \E t \in clock..MaxClock :
       LET post == loadPersisted(S, t)
           called == post.isApplyingRef \/ post.item # Absent
       IN Task(post, post.item # Absent,
               Event("mount", StoredContent(storage), <<>>,
                     IF called THEN CallResult(S, post)
                     ELSE IF storage = Corrupt THEN "corrupt" ELSE None,
                     IF called THEN Settled(CallResult(S, post)) ELSE None, <<>>))

(***************************************************************************)
(* useTweakcnSwitcher: calls and completions                               *)
(***************************************************************************)
\* applyTheme(x) called by the application
SelectTheme(x) ==
  /\ mounted /\ NoMicro
  /\ \E t \in clock..MaxClock :
       LET post == applyThemeCall(S, x, None, t)
           res == CallResult(S, post)
       IN Task(post, ~ApplyGuard(S) /\ isCssCode(x),
               Event("applyTheme", x, <<>>, res, Settled(res), <<>>))
  /\ UNCHANGED mounted

\* applyThemeOption(theme), lines 222-239
applyThemeOptionCall(F, theme, t) ==
  IF F.currentTheme.id = theme.id THEN F
  ELSE IF F.isLoading \/ F.isApplyingRef THEN F
  ELSE applyThemeCall(F, IF theme.css # None THEN theme.css ELSE theme.url, None, t)

ApplyThemeOption(i) ==
  /\ mounted /\ NoMicro
  /\ \E t \in clock..MaxClock :
       LET theme == themes[i]
           x == IF theme.css # None THEN theme.css ELSE theme.url
           post == applyThemeOptionCall(S, theme, t)
           res == IF currentTheme.id = theme.id THEN "same"
                  ELSE IF isLoading \/ isApplyingRef THEN "dropped"
                  ELSE CallResult(S, post)
       IN Task(post, res \notin {"same", "dropped"} /\ isCssCode(x),
               Event("applyThemeOption", x, theme.id, res, Settled(res), <<>>))
  /\ UNCHANGED mounted

\* the fetch of the accepted applyTheme call completes
FetchDone(o) ==
  /\ mounted /\ NoMicro
  /\ sel # Absent /\ sel.pc = "fetch"
  /\ IF o = "ok"
     THEN LET itemv == RemoteTheme(sel.arg)
              option == UrlOption(<<"theme", itemv.name>>, itemv.name, sel.arg)
              post == applyThemeResolved(S, sel.arg, sel.override, itemv, option)
              res == IF post.sel # Absent THEN "applying"
                     ELSE IF PersistThrows(S) THEN "failed" ELSE "applied"
          IN Task(post, TRUE,
                  Event("fetchDone", sel.arg, <<>>, res,
                        IF res = "applying" THEN "pending" ELSE "fulfilled", <<>>))
     ELSE Task(applyThemeFinally(applyThemeCatch(S, FetchErrorMessage(o))), FALSE,
               Event("fetchDone", sel.arg, <<>>, "failed", applyThemeSettledOnError, <<>>))
  /\ UNCHANGED mounted

\* the load (or error) event of a font link: the Applier invocation that
\* appended the link resumes; applyTheme continues after its await
FontLoaded(i) ==
  /\ mounted /\ NoMicro
  /\ i \in 1..Len(applies)
  /\ applies[i].wait = "net"
  /\ FontSansValue(applies[i].item) \in dom.links
  /\ LET a == applies[i]
         F1 == [S EXCEPT !.dom = ApplierFinish(@, a.item, a.mode),
                         !.applies = RemoveAt(@, i)]
     IN IF a.owner = "select"
        THEN LET post == applyThemeTail(F1, sel.arg, sel.option, sel.mode)
             IN Task(post, FALSE,
                     Event("fontLoaded", sel.arg, <<>>,
                           IF PersistThrows(S) THEN "failed" ELSE "applied",
                           "fulfilled", <<>>))
        ELSE Task(F1, FALSE, Event("fontLoaded", None, <<>>, None, None, <<>>))
  /\ UNCHANGED mounted

\* an Applier invocation whose font link was already present resumes
RunMicrotask ==
  /\ ~NoMicro
  /\ LET i == CHOOSE j \in 1..Len(applies) :
                 applies[j].wait = "micro" /\ \A k \in 1..(j - 1) : applies[k].wait # "micro"
         a == applies[i]
     IN /\ Len(ApplierFinish(dom, a.item, a.mode).fontStyles) <= MaxFontStyles
        /\ dom' = ApplierFinish(dom, a.item, a.mode)
        /\ applies' = RemoveAt(applies, i)
  /\ ev' = Event("microtask", None, <<>>, None, None, <<>>)
  /\ UNCHANGED <<persist, themes, currentTheme, isLoading, error, mode,
                 currentRegistryItem, modeRef, isApplyingRef, mounted, storage,
                 sel, adds, clock>>

\* handleSetMode, lines 306-308
SetMode(m) ==
  /\ mounted /\ NoMicro
  /\ Task([S EXCEPT !.mode = m], FALSE, Event("setMode", m, <<>>, None, None, <<>>))
  /\ UNCHANGED mounted

\* faulty variant: the cached preset and the persisted record survive the removal
removeThemeKeepsPreset(F, id) ==
  LET kept == SelectSeq(F.themes, LAMBDA t : t.id # id)
  IN IF F.currentTheme.id = id
     THEN [F EXCEPT !.themes = kept, !.currentTheme = NoOption]
     ELSE [F EXCEPT !.themes = kept]

\* removeTheme, lines 292-304
removeThemeCall(F, id) ==
  LET kept == SelectSeq(F.themes, LAMBDA t : t.id # id)
  IN IF F.currentTheme.id = id
     THEN [F EXCEPT !.themes = kept, !.currentTheme = NoOption, !.item = Absent,
                    !.storage = IF F.persist THEN Absent ELSE @]
     ELSE [F EXCEPT !.themes = kept]

RemoveTheme(id) ==
  /\ mounted /\ NoMicro
  /\ Task(removeThemeCall(S, id), FALSE,
          Event("removeTheme", None, id,
                IF currentTheme.id = id THEN "current" ELSE "other", None, <<>>))
  /\ UNCHANGED mounted

\* names the application may pass to addTheme (None: no name given)
AddNames == {None}

\* faulty variant: the new option is appended without the content check
AddToCatalogAlways(F, x, newTheme) ==
  [F EXCEPT !.themes = Append(@, newTheme)]

\* lines 274-280: setThemes in addTheme
AddToCatalog(F, x, newTheme) ==
  IF HasContent(F.themes, x) THEN F ELSE [F EXCEPT !.themes = Append(@, newTheme)]

\* catch (lines 283-287): the message goes to the error field and the error
\* is re-thrown, so the promise returned by addTheme is rejected
addThemeCatch(F, msg) == [F EXCEPT !.error = msg]
addThemeSettledOnError == "rejected"

\* addTheme(urlOrCss, name), lines 241-290, up to its network await
addThemeCall(F, x, name, t) ==
  LET F0 == [F EXCEPT !.error = None]
  IN IF isCssCode(x)
     THEN LET itemv == parseCssToThemeRegistryItem(x, IF name # None THEN name ELSE "custom-css-theme")
              themeName == IF name # None THEN name ELSE itemv.name
          IN AddToCatalog([F0 EXCEPT !.clock = t], x,
                          CssOption(<<"css-theme", ToString(t)>>, themeName, x))
     ELSE IF ~fetchValidation(x).valid
          THEN addThemeCatch(F0, fetchValidation(x).error)
          ELSE [F0 EXCEPT !.adds = Append(@, [arg |-> x, name |-> name])]

AddTheme(x, name) ==
  /\ mounted /\ NoMicro
  /\ (validateUrl(x).valid => Len(adds) < MaxAddInFlight)
  /\ \E t \in clock..MaxClock :
       LET post == addThemeCall(S, x, name, t)
           res == IF Len(post.adds) > Len(adds) THEN "pending"
                  ELSE IF post.error # None THEN "failed" ELSE "added"
       IN Task(post, FALSE,
               Event("addTheme", x, <<>>, res,
                     IF res = "pending" THEN "pending"
                     ELSE IF res = "failed" THEN addThemeSettledOnError
                     ELSE "fulfilled", <<>>))
  /\ UNCHANGED mounted

\* the fetch of an addTheme call completes
AddDone(i, o) ==
  /\ mounted /\ NoMicro
  /\ i \in 1..Len(adds)
  /\ LET a == adds[i]
         F1 == [S EXCEPT !.adds = RemoveAt(@, i)]
         itemv == RemoteTheme(a.arg)
         themeName == IF a.name # None THEN a.name ELSE itemv.name
         post == IF o = "ok"
                 THEN AddToCatalog(F1, a.arg, UrlOption(<<"theme", themeName>>, themeName, a.arg))
                 ELSE addThemeCatch(F1, FetchErrorMessage(o))
     IN Task(post, FALSE,
             Event("addDone", a.arg, <<>>, IF o = "ok" THEN "added" ELSE "failed",
                   IF o = "ok" THEN "fulfilled" ELSE addThemeSettledOnError, <<>>))
  /\ UNCHANGED mounted

CatalogIds == {themes[i].id : i \in 1..Len(themes)}

NextCtl ==
  \/ Mount
  \/ \E x \in Inputs : SelectTheme(x)
  \/ \E i \in 1..Len(themes) : ApplyThemeOption(i)
  \/ \E o \in FetchOutcomes : FetchDone(o)
  \/ \E i \in 1..Len(applies) : FontLoaded(i)
  \/ RunMicrotask
  \/ \E m \in Modes : SetMode(m)
  \/ \E id \in CatalogIds : RemoveTheme(id)
  \/ \E x \in Inputs, n \in AddNames : AddTheme(x, n)
  \/ \E i \in 1..Len(adds), o \in FetchOutcomes : AddDone(i, o)

(***************************************************************************)
(* ThemeRegistry (src/src/registry.ts)                                     *)
(***************************************************************************)
\* theme names used as cache keys; the server has no theme named "bogus"
RegKeys == {"ocean", "bogus"}
Served(k) == k # "bogus"
\* what the server may answer for a key at different times
Versions == {"v1", "v2"}

VARIABLES
  regCache,     \* this.cache: key -> stored theme (None: no entry)
  regPending,   \* fetchTheme calls awaiting their response: [key, owner]
  netCalls,     \* history: network requests issued per key
  regLog        \* history: the last events, newest last

regVars == <<regCache, regPending, netCalls, regLog>>

Logged(log, e) ==
  LET l == Append(log, e) IN IF Len(l) > HistLen THEN Tail(l) ELSE l

RegEvent(op, key, res, value, tick) ==
  [op |-> op, key |-> key, res |-> res, value |-> value, tick |-> tick]

LastTick(log) == IF log = <<>> THEN 0 ELSE log[Len(log)].tick
NextTick(log) == 1 - LastTick(log)
LastReg == regLog[Len(regLog)]

\* faulty variant: the cache is never consulted
CacheNeverHas(cache, k) == FALSE

\* line 14: this.cache.has(themeName)
CacheHas(cache, k) == cache[k] # None

\* lines 24-26: the response was ok; store and return the theme
CacheStore(cache, k, v) == [cache EXCEPT ![k] = v]

\* lines 37-39
clearCache(cache) == [k \in DOMAIN cache |-> None]

InitReg ==
  /\ regCache = [k \in RegKeys |-> None]
  /\ regPending = <<>>
  /\ netCalls = [k \in RegKeys |-> 0]
  /\ regLog = <<>>

\* fetchTheme(k) up to its await: a cache hit returns the stored theme, a
\* miss issues one request
RegFetchTheme(k) ==
  IF CacheHas(regCache, k)
  THEN /\ regLog' = Logged(regLog, RegEvent("fetchTheme", k, "hit", regCache[k], NextTick(regLog)))
       /\ UNCHANGED <<regCache, regPending, netCalls>>
  ELSE /\ netCalls[k] < MaxNet
       /\ Len(regPending) < MaxRegInFlight
       /\ netCalls' = [netCalls EXCEPT ![k] = @ + 1]
       /\ regPending' = Append(regPending, [key |-> k, owner |-> "direct"])
       /\ regLog' = Logged(regLog, RegEvent("fetchTheme", k, "miss", None, NextTick(regLog)))
       /\ UNCHANGED regCache

\* faulty variant: the failure is remembered as a cached null
fetchThemeFailureCached(cache, k) ==
  [cache |-> [cache EXCEPT ![k] = "null"], value |-> None, settled |-> "fulfilled"]

\* lines 27-30: catch: console.error, return null
fetchThemeFailure(cache, k) ==
  [cache |-> cache, value |-> None, settled |-> "fulfilled"]

\* lines 19-30: what fetchTheme(k) does with the answer o (body v)
fetchThemeSettle(cache, k, o, v) ==
  IF o = "ok"
  THEN [cache |-> CacheStore(cache, k, v), value |-> v, settled |-> "fulfilled"]
  ELSE fetchThemeFailure(cache, k)

\* the response of request i arrives: ok with body v, an unsuccessful
\* status, or a transport failure (both caught: the call resolves to null)
RegResponse(i, o, v) ==
  /\ i \in 1..Len(regPending)
  /\ regPending[i].owner = "direct"
  /\ (o = "ok" => Served(regPending[i].key))
  /\ LET r == fetchThemeSettle(regCache, regPending[i].key, o, v)
     IN /\ regCache' = r.cache
        /\ regLog' = Logged(regLog,
                            [op |-> "response", key |-> regPending[i].key, res |-> o,
                             value |-> r.value, tick |-> NextTick(regLog),
                             settled |-> r.settled])
  /\ regPending' = RemoveAt(regPending, i)
  /\ UNCHANGED netCalls

RegClearCache ==
  /\ regCache' = clearCache(regCache)
  /\ regLog' = Logged(regLog, RegEvent("clearCache", None, None, None, NextTick(regLog)))
  /\ UNCHANGED <<regPending, netCalls>>

\* getCachedTheme(k), lines 41-43
RegGetCached(k) ==
  /\ regLog' = Logged(regLog, RegEvent("getCachedTheme", k, None, regCache[k], NextTick(regLog)))
  /\ UNCHANGED <<regCache, regPending, netCalls>>

\* name lists handed to fetchThemes
NameLists == {<<"ocean", "ocean">>, <<"ocean", "bogus">>}

\* lines 33-35: names.map(fetchTheme): every call runs up to its await
\* before any response is handled
RECURSIVE fetchThemesStart(_, _)
fetchThemesStart(R, names) ==
  IF names = <<>> THEN R
  ELSE LET k == Head(names)
           R1 == IF CacheHas(R.cache, k) THEN R
                 ELSE [R EXCEPT !.net[k] = @ + 1,
                                !.pending = Append(@, [key |-> k, owner |-> "direct"])]
       IN fetchThemesStart(R1, Tail(names))

RegFetchThemes(names) ==
  LET R == fetchThemesStart([cache |-> regCache, pending |-> regPending, net |-> netCalls],
                            names)
  IN /\ \A k \in RegKeys : R.net[k] <= MaxNet
     /\ Len(R.pending) <= MaxRegInFlight
     /\ netCalls' = R.net
     /\ regPending' = R.pending
     /\ regLog' = Logged(regLog, RegEvent("fetchThemes", Head(names),
                                          IF names[1] = names[2] THEN "repeated" ELSE "distinct",
                                          None, NextTick(regLog)))
     /\ UNCHANGED regCache

NextReg ==
  \/ \E k \in RegKeys : RegFetchTheme(k)
  \/ \E names \in NameLists : RegFetchThemes(names)
  \/ \E i \in 1..Len(regPending), o \in FetchOutcomes, v \in Versions : RegResponse(i, o, v)
  \/ RegClearCache
  \/ \E k \in RegKeys : RegGetCached(k)

(***************************************************************************)
(* ThemeProvider (src/src/provider.tsx)                                    *)
(***************************************************************************)
SYSTEM_THEME == "system"
LIGHT_THEME == "light"
DARK_THEME == "dark"

\* props: themes = ["light", "dark", "ocean"], value undefined
ThemesProp == <<"light", "dark", "ocean">>
\* names the application may pass to setTheme
ThemeNames == {"system", "light", "dark", "ocean", "bogus"}

VARIABLES
  enableSystem,   \* prop
  attribute,      \* prop: "class" or "data-theme"
  pMounted,       \* the first render's effects have run
  pTheme,         \* useState theme
  pResolved,      \* useState resolvedTheme (None: undefined)
  pSystem,        \* useState systemTheme (None: undefined)
  pLoaded,        \* useState loadedThemes: name -> theme data (None: no entry)
  pStorage,       \* localStorage[storageKey] (None: no entry)
  pStorageOk,     \* FALSE: every access to localStorage throws
  pBoot,          \* the ThemeScript of the page: state "none", "done" (ran to
                  \* its end) or "caught" (its catch clause ran); name: the
                  \* theme name it computed (None when it set nothing)
  osDark,         \* matchMedia("(prefers-color-scheme: dark)").matches
  pRoot,          \* documentElement: class list, data attribute, inline
                  \* custom properties; by / name: who set the attribute
                  \* or class last, and to which theme name (history)
  pTokens,        \* the theme data whose tokens applyTheme wrote last
  pEv             \* history: the last call / event

provVars == <<enableSystem, attribute, pMounted, pTheme, pResolved, pSystem,
              pLoaded, pStorage, pStorageOk, pBoot, osDark, pRoot, pTokens, pEv>>

\* line 41
effectiveThemes(es) == IF es THEN <<SYSTEM_THEME>> \o ThemesProp ELSE ThemesProp

P ==
  [theme |-> pTheme, resolved |-> pResolved, system |-> pSystem, loaded |-> pLoaded,
   storage |-> pStorage, ok |-> pStorageOk, root |-> pRoot, tokens |-> pTokens,
   cache |-> regCache, pending |-> regPending, net |-> netCalls]

InstallP(F) ==
  /\ pTheme' = F.theme
  /\ pResolved' = F.resolved
  /\ pSystem' = F.system
  /\ pLoaded' = F.loaded
  /\ pStorage' = F.storage
  /\ pRoot' = F.root
  /\ pTokens' = F.tokens
  /\ regCache' = F.cache
  /\ regPending' = F.pending
  /\ netCalls' = F.net

\* the theme documents the registry serves (wire format: cssVars.theme,
\* cssVars.light, cssVars.dark); v1 defines radius in the theme scope and
\* in the light scope
ThemeBody(v) ==
  IF v = "v1" THEN
    [theme |-> [NoVars EXCEPT !["radius"] = "r1"],
     light |-> [NoVars EXCEPT !["background"] = "o-light", !["radius"] = "r9"],
     dark  |-> [NoVars EXCEPT !["background"] = "o-dark"]]
  ELSE
    [theme |-> [NoVars EXCEPT !["radius"] = "r2"],
     light |-> [NoVars EXCEPT !["background"] = "o2-light"],
     dark  |-> [NoVars EXCEPT !["background"] = "o2-dark"]]

\* applyTheme(theme, colorMode) of the provider (part_001 lines 3-24):
\* every theme-scope token, then every token of cssVars[colorMode]
provApplyTheme(style, theme, colorMode) ==
  LET s1 == [k \in Keys |-> IF theme.theme[k] # None THEN theme.theme[k] ELSE style[k]]
      mv == IF colorMode = "dark" THEN theme.dark ELSE theme.light
  IN [k \in Keys |-> IF mv[k] # None THEN mv[k] ELSE s1[k]]

\* faulty variant: the classes of the other themes are left in place
applyDOMAttributesAddOnly(root, attr, es, themeName) ==
  IF attr = "class"
  THEN [root EXCEPT !.classes = @ \cup {themeName}, !.by = "provider", !.name = themeName]
  ELSE [root EXCEPT !.data = themeName, !.by = "provider", !.name = themeName]

\* lines 127-148
applyDOMAttributes(root, attr, es, themeName) ==
  IF attr = "class"
  THEN [root EXCEPT !.classes = (@ \ Range(effectiveThemes(es))) \cup {themeName},
                    !.by = "provider", !.name = themeName]
  ELSE [root EXCEPT !.data = themeName, !.by = "provider", !.name = themeName]

\* faulty variant: a known OS preference wins over any selection
resolveThemeFollowsOS(theme, system) ==
  IF system # None THEN system ELSE IF theme = SYSTEM_THEME THEN LIGHT_THEME ELSE theme

\* lines 68-73
resolveTheme(theme, system) ==
  IF theme = SYSTEM_THEME THEN (IF system # None THEN system ELSE LIGHT_THEME) ELSE theme

\* line 104
ColorMode(name) == IF name \in {"dark", "ocean-dark"} THEN "dark" ELSE "light"

\* lines 102-121: theme data is at hand
ApplyLoaded(F, attr, es, name, data) ==
  [F EXCEPT !.tokens = [name |-> name, data |-> data, mode |-> ColorMode(name)],
            !.root = applyDOMAttributes(
                       [@ EXCEPT !.style = provApplyTheme(@, ThemeBody(data), ColorMode(name))],
                       attr, es, name)]

\* lines 79-125: the load-and-apply effect for the rendered resolvedTheme
LoadAndApply(F, attr, es, resolved) ==
  IF resolved = None THEN F
  ELSE IF resolved \in {LIGHT_THEME, DARK_THEME}
  THEN [F EXCEPT !.root = applyDOMAttributes(@, attr, es, resolved)]
  ELSE IF F.loaded[resolved] # None
  THEN ApplyLoaded(F, attr, es, resolved, F.loaded[resolved])
  ELSE IF CacheHas(F.cache, resolved)
  THEN ApplyLoaded([F EXCEPT !.loaded[resolved] = F.cache[resolved]], attr, es,
                   resolved, F.cache[resolved])
  ELSE [F EXCEPT !.pending = Append(@, [key |-> resolved, owner |-> "provider"]),
                 !.net[resolved] = @ + 1]

\* lines 44-49: the storage effect (effectiveThemes is a new array on every
\* render, so the effect runs after every render)
LoadStored(F, es) ==
  LET stored == IF F.ok THEN F.storage ELSE None   \* storage.get catches
  IN IF stored # None /\ stored \in Range(effectiveThemes(es))
     THEN [F EXCEPT !.theme = stored] ELSE F

Deps(F) == <<F.theme, F.system, F.resolved, F.loaded>>

\* one render's effects, run on the values of that render (R), followed by
\* the renders their state updates cause.  first: the mount render.
RECURSIVE Render(_, _, _, _, _, _, _)
Render(F, prev, first, attr, es, os, fuel) ==
  LET R == F
      F1 == LoadStored(F, es)
      F2 == IF first /\ es THEN [F1 EXCEPT !.system = IF os THEN DARK_THEME ELSE LIGHT_THEME]
            ELSE F1
      F3 == IF first \/ R.theme # prev.theme \/ R.system # prev.system
            THEN [F2 EXCEPT !.resolved = resolveTheme(R.theme, R.system)] ELSE F2
      F4 == IF first \/ R.resolved # prev.resolved \/ R.loaded # prev.loaded
            THEN LoadAndApply(F3, attr, es, R.resolved) ELSE F3
  IN IF Deps(F4) = Deps(R) \/ fuel = 0 THEN F4
     ELSE Render(F4, R, FALSE, attr, es, os, fuel - 1)

RenderFuel == 6

ProvEvent(op, arg) == [op |-> op, arg |-> arg]

\* prop defaultTheme: "system" (the default), or "light" when the
\* application disables system detection
DefaultTheme(es) == IF es THEN SYSTEM_THEME ELSE LIGHT_THEME

InitProv ==
  /\ enableSystem \in BOOLEAN
  /\ attribute \in {"class", "data-theme"}
  /\ pMounted = FALSE
  /\ pTheme = DefaultTheme(enableSystem)
  /\ pResolved = None
  /\ pSystem = None
  /\ pLoaded = [k \in RegKeys |-> None]
  /\ pStorage \in {None, "dark", "ocean", "bogus", "system"}
  /\ pStorageOk \in BOOLEAN
  /\ (~pStorageOk => pStorage = None)
  /\ pBoot = [state |-> "none", name |-> None]
  /\ osDark \in BOOLEAN
  /\ pRoot = [classes |-> {}, data |-> None, style |-> NoVars, by |-> "none", name |-> None]
  /\ pTokens = Absent
  /\ pEv = ProvEvent("init", None)

ProvTask(post, e) ==
  /\ InstallP(Render(post, P, FALSE, attribute, enableSystem, osDark, RenderFuel))
  /\ pEv' = e
  /\ UNCHANGED <<enableSystem, attribute, pMounted, pStorageOk, pBoot, osDark, regLog>>

ProvMount ==
  /\ ~pMounted
  /\ pMounted' = TRUE
  /\ InstallP(Render(P, P, TRUE, attribute, enableSystem, osDark, RenderFuel))
  /\ pEv' = ProvEvent("mount", None)
  /\ UNCHANGED <<enableSystem, attribute, pStorageOk, pBoot, osDark, regLog>>

\* setTheme, lines 150-156 (storage.set fails silently)
setTheme(F, newTheme) ==
  [F EXCEPT !.theme = newTheme, !.storage = IF F.ok THEN newTheme ELSE @]

ProvSetTheme(n) ==
  /\ pMounted
  /\ (n \in RegKeys /\ pLoaded[n] = None /\ ~CacheHas(regCache, n)
        => netCalls[n] < MaxNet /\ Len(regPending) < MaxRegInFlight)
  /\ ProvTask(setTheme(P, n), ProvEvent("setTheme", n))

\* the OS colour scheme changes; the listener (lines 56-59) runs
ProvSystemChange ==
  /\ pMounted
  /\ osDark' = ~osDark
  /\ LET post == IF enableSystem
                 THEN [P EXCEPT !.system = IF osDark' THEN DARK_THEME ELSE LIGHT_THEME]
                 ELSE P
     IN /\ InstallP(Render(post, P, FALSE, attribute, enableSystem, osDark', RenderFuel))
        /\ pEv' = ProvEvent("systemChange", None)
  /\ UNCHANGED <<enableSystem, attribute, pMounted, pStorageOk, pBoot, regLog>>

\* the response of a fetch started by the load-and-apply effect arrives:
\* fetchTheme stores and returns the theme (or returns null), then the
\* effect's continuation (lines 95-121) runs for the name it captured
ProvResponse(i, o, v) ==
  /\ pMounted
  /\ i \in 1..Len(regPending)
  /\ regPending[i].owner = "provider"
  /\ (o = "ok" => Served(regPending[i].key))
  /\ LET k == regPending[i].key
         F1 == [P EXCEPT !.pending = RemoveAt(@, i)]
         post == IF o = "ok"
                 THEN ApplyLoaded([F1 EXCEPT !.cache = CacheStore(@, k, v), !.loaded[k] = v],
                                  attribute, enableSystem, k, v)
                 ELSE F1
     IN ProvTask(post, ProvEvent("response", k))

\* faulty variant: the persisted selection is not consulted
ThemeScriptDefaultOnly(root, stored, ok, defaultTheme, es, os, attr) ==
  LET theme == IF defaultTheme = SYSTEM_THEME /\ es
               THEN (IF os THEN DARK_THEME ELSE LIGHT_THEME) ELSE defaultTheme
  IN IF attr = "class"
     THEN [root EXCEPT !.classes = @ \cup {theme}, !.by = "script", !.name = theme]
     ELSE [root EXCEPT !.data = theme, !.by = "script", !.name = theme]

\* the script body, lines 221-243: one try block; when localStorage.getItem
\* throws, the catch clause swallows the error and nothing is set
ThemeScript(root, stored, ok, defaultTheme, es, os, attr) ==
  IF ~ok THEN root
  ELSE LET theme0 == IF stored # None THEN stored ELSE defaultTheme
           systemTheme == IF os THEN DARK_THEME ELSE LIGHT_THEME
           theme == IF theme0 = SYSTEM_THEME /\ es THEN systemTheme ELSE theme0
       IN IF attr = "class"
          THEN [root EXCEPT !.classes = @ \cup {theme}, !.by = "script", !.name = theme]
          ELSE [root EXCEPT !.data = theme, !.by = "script", !.name = theme]

\* the page's inline script runs, before React mounts the provider
ProvBootstrap ==
  /\ ~pMounted /\ pBoot.state = "none"
  /\ pRoot' = ThemeScript(pRoot, pStorage, pStorageOk, DefaultTheme(enableSystem),
                          enableSystem, osDark, attribute)
  /\ pBoot' = IF pRoot'.by = "script" THEN [state |-> "done", name |-> pRoot'.name]
              ELSE [state |-> "caught", name |-> None]
  /\ pEv' = ProvEvent("bootstrap", None)
  /\ UNCHANGED <<enableSystem, attribute, pMounted, pTheme, pResolved, pSystem, pLoaded,
                 pStorage, pStorageOk, osDark, pTokens, regVars>>

NextProv ==
  \/ ProvBootstrap
  \/ ProvMount
  \/ \E n \in ThemeNames : ProvSetTheme(n)
  \/ ProvSystemChange
  \/ \E i \in 1..Len(regPending), o \in FetchOutcomes, v \in Versions : ProvResponse(i, o, v)

(***************************************************************************)
(* The storage adapters (src/src/storage.ts, readStorage / writeStorage)   *)
(***************************************************************************)

Undefined == "undefined"
StoreKinds == {"ok", "absent", "throws"}
StoreStrings == {"light", "dark", "ocean"}

\* JSON.stringify of a string value
JsonStringify(v) == "\"" \o v \o "\""

\* the raw strings the key may hold: written by storage.set, written by
\* writeStorage, or the empty string
RawValues == StoreStrings \cup {JsonStringify(v) : v \in StoreStrings} \cup {""}

\* JSON.parse of a raw string: the value, or a SyntaxError
JsonParse(raw) ==
  IF \E v \in StoreStrings : raw = JsonStringify(v)
  THEN [threw |-> FALSE, ret |-> CHOOSE v \in StoreStrings : raw = JsonStringify(v)]
  ELSE [threw |-> TRUE, ret |-> Undefined]

\* the outcome of a call: whether it threw, what it returned, the raw value
Outcome(threw, ret, value) == [threw |-> threw, ret |-> ret, value |-> value]

\* localStorage.getItem / setItem / removeItem on the backing store
lsGetItem(kind, value) ==
  IF kind \in {"ok", "full"} THEN Outcome(FALSE, value, value) ELSE Outcome(TRUE, None, value)
lsSetItem(kind, value, raw) ==
  IF kind = "ok" THEN Outcome(FALSE, None, raw) ELSE Outcome(TRUE, None, value)
lsRemoveItem(kind, value) ==
  IF kind \in {"ok", "full"} THEN Outcome(FALSE, None, None) ELSE Outcome(TRUE, None, value)

\* faulty variant: storage.get without its try / catch
storageGetUnguarded(kind, value) ==
  IF kind = "absent" THEN Outcome(FALSE, None, value) ELSE lsGetItem(kind, value)

\* storage.get, lines 2-9
storageGet(kind, value) ==
  IF kind = "absent" THEN Outcome(FALSE, None, value)
  ELSE LET r == lsGetItem(kind, value)
       IN IF r.threw THEN Outcome(FALSE, None, value) ELSE r

\* storage.set, lines 11-18
storageSet(kind, value, v) ==
  IF kind = "absent" THEN Outcome(FALSE, None, value)
  ELSE LET r == lsSetItem(kind, value, v)
       IN IF r.threw THEN Outcome(FALSE, None, value) ELSE r

\* storage.remove, lines 20-27
storageRemove(kind, value) ==
  IF kind = "absent" THEN Outcome(FALSE, None, value)
  ELSE LET r == lsRemoveItem(kind, value)
       IN IF r.threw THEN Outcome(FALSE, None, value) ELSE r

\* typeof window !== "undefined" && typeof localStorage !== "undefined"
isBrowser(kind) == kind # "absent"

\* readStorage, part_003 lines 4-12: undefined for no value, for the empty
\* string, for a value JSON.parse rejects, and when getItem throws
readStorage(kind, value) ==
  IF ~isBrowser(kind) THEN Outcome(FALSE, Undefined, value)
  ELSE LET r == lsGetItem(kind, value)
       IN IF r.threw \/ r.ret = None \/ r.ret = "" THEN Outcome(FALSE, Undefined, value)
          ELSE Outcome(FALSE, JsonParse(r.ret).ret, value)

\* writeStorage, part_003 lines 14-21
writeStorage(kind, value, v) ==
  IF ~isBrowser(kind) THEN Outcome(FALSE, None, value)
  ELSE LET r == lsSetItem(kind, value, JsonStringify(v))
       IN IF r.threw THEN Outcome(FALSE, None, value) ELSE r

StoreEvent(op, arg, before, r) ==
  [op |-> op, arg |-> arg, before |-> before, ret |-> r.ret, threw |-> r.threw]

InitStore ==
  /\ lsKind \in StoreKinds \cup {"full"}
  /\ lsValue \in {None} \cup RawValues
  /\ (lsKind = "absent" => lsValue = None)
  /\ stEv = StoreEvent("init", None, None, Outcome(FALSE, None, None))

\* one adapter call with outcome r
StoreCall(op, arg, r) ==
  /\ lsValue' = r.value
  /\ stEv' = StoreEvent(op, arg, lsValue, r)
  /\ UNCHANGED lsKind

StoreGet == StoreCall("get", None, storageGet(lsKind, lsValue))
StoreSet(v) == StoreCall("set", v, storageSet(lsKind, lsValue, v))
StoreRemove == StoreCall("remove", None, storageRemove(lsKind, lsValue))
ReadStorage == StoreCall("readStorage", None, readStorage(lsKind, lsValue))
WriteStorage(v) == StoreCall("writeStorage", v, writeStorage(lsKind, lsValue, v))

NextStore ==
  \/ StoreGet
  \/ \E v \in StoreStrings : StoreSet(v)
  \/ StoreRemove
  \/ ReadStorage
  \/ \E v \in StoreStrings : WriteStorage(v)

(***************************************************************************)
(* applyThemeFromRegistry on its own, statement by statement, one          *)
(* invocation at a time                                                    *)
(***************************************************************************)
\* doc  : the document
\* run  : the invocation in progress (preset, mode, the next statement
\*        group pc, the groups done so far, the document it started on),
\*        or Absent
\* hist : the last completed invocation (preset, mode, the document it
\*        started on, the groups it ran), how many times in a row that
\*        (preset, mode) pair has completed, and the document after the
\*        first of those times
VARIABLES doc, run, hist

applVars == <<doc, run, hist>>

MaxRepeat == 3

\* a second preset with a font-sans token, naming another family
FontThemeB ==
  [name |-> "pf",
   theme |-> [NoVars EXCEPT !["font-sans"] = "Roboto"],
   light |-> [NoVars EXCEPT !["background"] = "f-light"],
   dark  |-> [NoVars EXCEPT !["background"] = "f-dark", !["radius"] = "r7"],
   css |-> "baseF"]

\* a preset with no theme tokens, no mode tokens and no css
EmptyPreset ==
  [name |-> "empty", theme |-> NoVars, light |-> NoVars, dark |-> NoVars, css |-> None]

ApplierPresets ==
  {RemoteTheme("uA"), RemoteTheme("uB"), FontThemeB, EmptyPreset,
   parseCssToThemeRegistryItem("css1", "custom-css-theme")}

\* faulty variant: the mode-scope tokens are written before the font branch
StepAfterModeFirst(pc) ==
  CASE pc = "clear" -> "theme"
    [] pc = "theme" -> "mode"
    [] pc = "mode"  -> "font"
    [] pc = "font"  -> "aux"
    [] pc = "aux"   -> "class"
    [] OTHER        -> "done"

\* the statement groups of applyThemeFromRegistry in program order:
\* lines 111-115, 117-128, 130-158, 160-176, 178-200, 202-206
StepAfter(pc) ==
  CASE pc = "clear" -> "theme"
    [] pc = "theme" -> "font"
    [] pc = "font"  -> "mode"
    [] pc = "mode"  -> "aux"
    [] pc = "aux"   -> "class"
    [] OTHER        -> "done"

InitAppl ==
  /\ doc = EmptyDom
  /\ run = Absent
  /\ hist = [item |-> Absent, mode |-> None, start |-> EmptyDom, trace |-> <<>>,
             n |-> 0, first |-> EmptyDom]

\* applyThemeFromRegistry(p, m) is called
ApplBegin(p, m) ==
  /\ run = Absent
  /\ ~(hist.item = p /\ hist.mode = m /\ hist.n >= MaxRepeat)
  /\ run' = [item |-> p, mode |-> m, pc |-> "clear", trace |-> <<>>, start |-> doc]
  /\ UNCHANGED <<doc, hist>>

\* a synchronous statement group: its effect on the document, its label
ApplStep(pc, d, label) ==
  /\ run # Absent /\ run.pc = pc
  /\ doc' = d
  /\ run' = [run EXCEPT !.pc = StepAfter(pc), !.trace = Append(@, label)]
  /\ UNCHANGED hist

\* lines 111-115
ApplClear == ApplStep("clear", RemoveExistingFontStyle(doc), "clear")

\* lines 117-128
ApplThemeTokens ==
  /\ run # Absent
  /\ ApplStep("theme", ApplyThemeScope(doc, run.item), "theme")

\* lines 130-135 / 151-158: the load attempt suspends the invocation; the
\* cleanup does not
ApplFontStart ==
  /\ run # Absent /\ run.pc = "font"
  /\ LET st == FontBranchStart(doc, run.item)
     IN /\ doc' = st.dom
        /\ run' = IF st.wait = "sync"
                   THEN [run EXCEPT !.pc = StepAfter("font"),
                                    !.trace = Append(@, "font-cleanup")]
                   ELSE [run EXCEPT !.pc = "font-wait",
                                    !.trace = Append(@, "font-load")]
  /\ UNCHANGED hist

\* lines 137-150: the load attempt has ended (load event, error event, or
\* link found): the override stylesheet is appended
ApplFontResume ==
  /\ run # Absent /\ run.pc = "font-wait"
  /\ doc' = FontBranchFinish(doc, run.item)
  /\ run' = [run EXCEPT !.pc = StepAfter("font"), !.trace = Append(@, "font-override")]
  /\ UNCHANGED hist

\* lines 160-176
ApplModeTokens ==
  /\ run # Absent
  /\ ApplStep("mode", ApplyModeScope(doc, run.item, run.mode), "mode")

\* lines 178-200
ApplAux ==
  /\ run # Absent
  /\ ApplStep("aux", ApplyLayerBase(doc, run.item), "aux")

\* lines 202-206, and the invocation returns
ApplClass ==
  /\ run # Absent /\ run.pc = "class"
  /\ doc' = ToggleDark(doc, run.mode)
  /\ run' = [run EXCEPT !.pc = StepAfter("class"), !.trace = Append(@, "class")]
  /\ UNCHANGED hist

ApplReturn ==
  /\ run # Absent /\ run.pc = "done"
  /\ run' = Absent
  /\ hist' = [item |-> run.item, mode |-> run.mode, start |-> run.start,
              trace |-> run.trace,
              n |-> IF hist.item = run.item /\ hist.mode = run.mode THEN hist.n + 1 ELSE 1,
              first |-> IF hist.item = run.item /\ hist.mode = run.mode
                        THEN hist.first ELSE doc]
  /\ UNCHANGED doc

NextAppl ==
  \/ \E p \in ApplierPresets, m \in Modes : ApplBegin(p, m)
  \/ ApplClear
  \/ ApplThemeTokens
  \/ ApplFontStart
  \/ ApplFontResume
  \/ ApplModeTokens
  \/ ApplAux
  \/ ApplClass
  \/ ApplReturn

(***************************************************************************)
(* Specifications                                                          *)
(***************************************************************************)
vars == <<ctlVars, regVars, provVars, storeVars, applVars>>

Init == InitCtl /\ InitReg /\ InitProv /\ InitStore /\ InitAppl

\* the parts a specification does not exercise stay at one initial value
IdleCtl == persist = TRUE /\ themes = <<>> /\ storage = Absent
IdleProv ==
  /\ enableSystem = TRUE /\ attribute = "class" /\ pStorage = None
  /\ pStorageOk = TRUE /\ osDark = FALSE
IdleStore == lsKind = "ok" /\ lsValue = None

InitCtlOnly == Init /\ IdleProv /\ IdleStore
InitRegOnly == Init /\ IdleCtl /\ IdleProv /\ IdleStore
InitProvOnly == Init /\ IdleCtl /\ IdleStore
InitStoreOnly == Init /\ IdleCtl /\ IdleProv /\ lsKind \in StoreKinds
InitApplOnly == Init /\ IdleCtl /\ IdleProv /\ IdleStore

\* the controller alone
SpecCtl ==
  InitCtlOnly /\ [][NextCtl /\ UNCHANGED <<regVars, provVars, storeVars, applVars>>]_vars

\* the controller handed URLs of every invalid kind: selections and
\* additions only, persistence on
NextUrl ==
  \/ Mount
  \/ \E x \in UrlInputs : SelectTheme(x)
  \/ \E o \in FetchOutcomes : FetchDone(o)
  \/ \E i \in 1..Len(applies) : FontLoaded(i)
  \/ RunMicrotask
  \/ \E x \in UrlInputs : AddTheme(x, None)
  \/ \E i \in 1..Len(adds), o \in FetchOutcomes : AddDone(i, o)

InitUrlOnly == InitCtlOnly /\ persist = TRUE /\ themes = <<>>

SpecUrl ==
  InitUrlOnly /\ [][NextUrl /\ UNCHANGED <<regVars, provVars, storeVars, applVars>>]_vars

\* the controller on a backing store that is full: persistence on, every
\* setItem throws; selections and mode changes only
NextFull ==
  \/ Mount
  \/ \E x \in Inputs : SelectTheme(x)
  \/ \E o \in FetchOutcomes : FetchDone(o)
  \/ \E i \in 1..Len(applies) : FontLoaded(i)
  \/ RunMicrotask
  \/ \E m \in Modes : SetMode(m)

InitFullOnly == Init /\ IdleProv /\ lsKind = "full" /\ lsValue = None /\ persist = TRUE

SpecFull ==
  InitFullOnly /\ [][NextFull /\ UNCHANGED <<regVars, provVars, storeVars, applVars>>]_vars

\* the controller with its completions scheduled: the request of the
\* accepted applyTheme call is answered (fetch settles), every appended
\* font link gets its load or error event (loadGoogleFont, utils.ts lines
\* 71-75), every pending microtask runs
FetchPending == sel # Absent /\ sel.pc = "fetch"
FontPending == \E i \in 1..Len(applies) : applies[i].wait = "net"

\* selections, mode changes and removals, with their completions
NextLive ==
  \/ Mount
  \/ \E x \in Inputs : SelectTheme(x)
  \/ \E o \in FetchOutcomes : FetchDone(o)
  \/ \E i \in 1..Len(applies) : FontLoaded(i)
  \/ RunMicrotask
  \/ \E m \in Modes : SetMode(m)
  \/ \E id \in CatalogIds : RemoveTheme(id)

CtlStep == NextLive /\ UNCHANGED <<regVars, provVars, storeVars, applVars>>

Completions ==
  /\ []<>(~FetchPending)
  /\ []<>(~FontPending)
  /\ WF_vars(RunMicrotask /\ UNCHANGED <<regVars, provVars, storeVars, applVars>>)

SpecLive == InitCtlOnly /\ [][CtlStep]_vars /\ Completions

\* the registry client alone
SpecReg ==
  InitRegOnly /\ [][NextReg /\ UNCHANGED <<ctlVars, provVars, storeVars, applVars>>]_vars

\* the provider with its registry instance
SpecProv == InitProvOnly /\ [][NextProv /\ UNCHANGED <<ctlVars, storeVars, applVars>>]_vars

\* the storage adapters alone
SpecStore ==
  InitStoreOnly /\ [][NextStore /\ UNCHANGED <<ctlVars, regVars, provVars, applVars>>]_vars

\* the Applier alone, one invocation at a time
SpecAppl ==
  InitApplOnly /\ [][NextAppl /\ UNCHANGED <<ctlVars, regVars, provVars, storeVars>>]_vars

(***************************************************************************)
(* Properties                                                              *)
(***************************************************************************)
\* the preset a successful resolution of x yields
PresetOf(x) ==
  IF isCssCode(x) THEN parseCssToThemeRegistryItem(x, "custom-css-theme") ELSE RemoteTheme(x)

\* the mode handed to the most recently started Applier invocation
LastAppliedMode ==
  IF applies # <<>> THEN applies[Len(applies)].mode
  ELSE IF dom.dark THEN "dark" ELSE "light"

SelectOps == {"applyTheme", "applyThemeOption", "fetchDone", "mount"}

\* C1: an applyTheme / applyThemeOption call made while an earlier call is
\* still resolving is dropped: it changes nothing (catalog, currentTheme,
\* resolved preset, error, loading flag, persisted record, document, the
\* call in flight, requests) and starts no Applier invocation; and when the
\* call in flight ends, the outcome is its own: applied with its content,
\* or failed with its fetch error and the selection unchanged.
C1_DroppedCallIsNoOp ==
  [][ /\ (ev'.op \in {"applyTheme", "applyThemeOption"} /\ isApplyingRef)
           => /\ UNCHANGED <<themes, currentTheme, isLoading, error, mode,
                             currentRegistryItem, storage, dom, sel, adds,
                             applies, isApplyingRef, clock>>
              /\ ev'.log = <<>>
              /\ ev'.res \in {"dropped", "same"}
      /\ (sel # Absent /\ sel' = Absent)
           => \/ /\ ev'.res = "applied"
                 /\ ev'.arg = sel.arg
                 /\ SameContent(currentTheme', sel.arg)
              \/ /\ ev'.res = "failed"
                 /\ ev'.arg = sel.arg
                 /\ error' \in {HttpError, TransportError}
                 /\ currentTheme' = currentTheme
    ]_vars

\* C1 witness: call B was dropped while call A (different content) resolves
C1_Witness ==
  /\ ev.op = "applyTheme" /\ ev.res = "dropped"
  /\ sel # Absent /\ sel.arg # ev.arg

\* C2: at most one Applier invocation is in progress at any time
C2_AtMostOneApplier == Len(applies) <= 1

\* C3: an accepted selection that fails (validation error, unsuccessful
\* status, transport failure) leaves the document as it was: neither the
\* step that accepts it nor the step that fails it changes the document or
\* starts or resumes an Applier invocation.
C3_FailedSelectLeavesDom ==
  [][ (ev'.op \in SelectOps /\ ev'.res \in {"failed", "pending"})
        => (dom' = dom /\ applies' = applies /\ ev'.log = <<>>) ]_vars

\* C3 witness: a fetch failed while an earlier theme is applied
C3_Witness ==
  /\ ev.op = "fetchDone" /\ ev.res = "failed"
  /\ error = HttpError
  /\ dom.vars["background"] # None

\* C4: every failure of a controller operation sets the error field and
\* rejects the promise of the triggering call
C4_FailureSetsErrorAndRejects ==
  (ev.res = "failed") => (error # None /\ ev.settled = "rejected")

\* C5: after a successful applyTheme(x): currentTheme is the catalog option
\* with content x, the resolved preset is the one obtained from x, error is
\* null, loading is false, and the persisted record holds x and the mode
\* the preset was applied under
C5_SuccessPostState ==
  (ev.res = "applied") =>
     /\ SameContent(currentTheme, ev.arg)
     /\ currentTheme \in Range(themes)
     /\ currentRegistryItem = PresetOf(ev.arg)
     /\ error = None
     /\ ~isLoading
     /\ persist => /\ storage # Absent /\ storage # Corrupt
                   /\ StoredContent(storage) = ev.arg
                   /\ storage.mode = LastAppliedMode

\* C6 (as stated): every setMode(m) with a resolved preset starts one
\* Applier invocation for that preset under m and no fetch; with no
\* resolved preset it applies nothing
C6_SetModeAlwaysReapplies ==
  [][ (ev'.op = "setMode")
        => IF currentRegistryItem # Absent
           THEN /\ ev'.log = <<Invocation("effect", currentRegistryItem, ev'.arg)>>
                /\ sel' = sel /\ adds' = adds
           ELSE /\ ev'.log = <<>> /\ dom' = dom /\ applies' = applies ]_vars

\* C6 (amended): setMode(m) with a resolved preset and m different from the
\* current mode starts exactly one Applier invocation for that same preset
\* under m, starts no fetch, and does so whether or not the Resolving guard
\* is held; with no resolved preset, or with m equal to the current mode,
\* it starts no Applier invocation and leaves the document alone.
C6_SetModeReappliesOnChange ==
  [][ (ev'.op = "setMode")
        => /\ mode' = ev'.arg
           /\ sel' = sel /\ adds' = adds /\ isApplyingRef' = isApplyingRef
           /\ currentRegistryItem' = currentRegistryItem
           /\ IF currentRegistryItem # Absent /\ ev'.arg # mode
              THEN /\ ev'.log = <<Invocation("effect", currentRegistryItem, ev'.arg)>>
                   /\ \/ dom'.dark = (ev'.arg = "dark")
                      \/ /\ Len(applies') = Len(applies) + 1
                         /\ applies'[Len(applies')].mode = ev'.arg
                         /\ applies'[Len(applies')].item = currentRegistryItem
              ELSE /\ ev'.log = <<>> /\ dom' = dom /\ applies' = applies ]_vars

\* C6 witness: a setMode re-applied the preset while the guard was held
C6_Witness ==
  /\ ev.op = "setMode" /\ ev.log # <<>>
  /\ isApplyingRef /\ sel # Absent

\* C7: with persistence on and a theme applied, once nothing is in flight
\* the persisted mode equals the controller's mode
C7_PersistedModeFollowsMode ==
  (/\ mounted /\ persist /\ currentTheme # NoOption
   /\ storage # Absent /\ storage # Corrupt
   /\ sel = Absent /\ applies = <<>> /\ adds = <<>>)
     => storage.mode = mode

\* C8: removeTheme(id) removes the options with that id from the catalog;
\* if the current selection has that id, currentTheme becomes null, the
\* resolved preset is cleared and the persisted record is removed;
\* otherwise those three are unchanged; in both cases nothing is selected
\* or applied in its place.
C8_RemoveTheme ==
  [][ (ev'.op = "removeTheme")
        => /\ themes' = SelectSeq(themes, LAMBDA t : t.id # ev'.id)
           /\ IF currentTheme.id = ev'.id
              THEN /\ currentTheme' = NoOption
                   /\ currentRegistryItem' = Absent
                   /\ persist => storage' = Absent
              ELSE UNCHANGED <<currentTheme, currentRegistryItem, storage>>
           /\ ev'.log = <<>>
           /\ UNCHANGED <<dom, sel, applies, adds, mode, isLoading, error>> ]_vars

\* C8 witness: the current selection was removed while other options remain
C8_Witness ==
  /\ ev.op = "removeTheme" /\ ev.res = "current"
  /\ currentTheme = NoOption /\ currentRegistryItem = Absent
  /\ themes # <<>>

\* C9: the current selection is null or a registered theme, in the hook
\* (currentTheme against the catalog) and in ThemeProvider (theme against
\* the effective theme list)
C9_SelectionRegistered ==
  /\ currentTheme = NoOption \/ currentTheme \in Range(themes)
  /\ pTheme \in Range(effectiveThemes(enableSystem))

\* C10: a fetchTheme(k) call made while k is cached issues no request and
\* returns the stored theme; a call made while k is not cached (first call,
\* or first call after clearCache) issues exactly one request for k; so two
\* calls for k, the second after the first succeeded, cost one request, and
\* clearCache() empties the cache.
C10_CacheReuse ==
  [][ LET e == regLog'[Len(regLog')]
      IN /\ (e.op = "fetchTheme")
              => IF regCache[e.key] # None
                 THEN /\ e.res = "hit" /\ e.value = regCache[e.key]
                      /\ UNCHANGED <<netCalls, regPending, regCache>>
                 ELSE /\ e.res = "miss"
                      /\ netCalls' = [netCalls EXCEPT ![e.key] = @ + 1]
                      /\ Len(regPending') = Len(regPending) + 1
         /\ (e.op = "clearCache") => \A k \in RegKeys : regCache'[k] = None
         /\ (e.op = "response") => netCalls' = netCalls
    ]_vars

\* C10 witness: a hit, then clearCache, then a miss for the same key, with
\* two requests in all
C10_Witness ==
  LET n == Len(regLog)
  IN /\ n >= 3
     /\ regLog[n-2].op = "fetchTheme" /\ regLog[n-2].res = "hit"
     /\ regLog[n-1].op = "clearCache"
     /\ regLog[n].op = "fetchTheme" /\ regLog[n].res = "miss"
     /\ regLog[n].key = regLog[n-2].key
     /\ netCalls[regLog[n].key] = 2

\* requests for key k that have not been answered yet
InFlightFor(k) == {i \in 1..Len(regPending) : regPending[i].key = k}

\* fetches of URL x the hook has started and not seen complete
HookFetchesOf(x) ==
  (IF sel # Absent /\ sel.pc = "fetch" /\ sel.arg = x THEN 1 ELSE 0)
  + Cardinality({i \in 1..Len(adds) : adds[i].arg = x})

\* C11: at every instant at most one network fetch is in flight per theme:
\* per theme name in the registry client (direct calls, fetchThemes, the
\* provider's load-and-apply effect) and per URL in the hook (selection and
\* addTheme)
C11_OneFetchPerTheme ==
  /\ \A k \in RegKeys : Cardinality(InFlightFor(k)) <= 1
  /\ \A x \in Inputs : HookFetchesOf(x) <= 1

\* C12: no step other than clearCache() removes or replaces a stored cache
\* entry: a cached key stays cached with the preset first stored for it
C12_CacheEntriesStable ==
  [][ (regLog'[Len(regLog')].op # "clearCache")
        => \A k \in RegKeys : regCache[k] # None => regCache'[k] = regCache[k] ]_vars

\* the class or data attribute of the root shows exactly theme name n
RootShows(root, n) ==
  IF attribute = "class"
  THEN n \in root.classes /\ (root.classes \cap {LIGHT_THEME, DARK_THEME}) \subseteq {n}
  ELSE root.data = n

\* C13: in ThemeProvider, an OS colour-scheme change while the selection is
\* not the system sentinel leaves the selection, the resolved theme, the
\* root (attribute, classes, custom properties) and the applied tokens
\* unchanged and starts no fetch
C13_SystemChangeIgnored ==
  [][ (pEv'.op = "systemChange" /\ pTheme # SYSTEM_THEME)
        => UNCHANGED <<pTheme, pResolved, pRoot, pTokens, netCalls, regPending,
                       regCache, pStorage>> ]_vars

\* C13 witness: the OS turned dark while the applied selection is "ocean"
C13_Witness ==
  /\ pEv.op = "systemChange" /\ osDark /\ pSystem = DARK_THEME
  /\ pTheme = "ocean" /\ pResolved = "ocean"
  /\ pTokens # Absent /\ pRoot.name = "ocean"

\* C14: in ThemeProvider with system detection on, when the selection is
\* the system sentinel and the OS preference changes from light to dark,
\* the resolved theme becomes dark, the root is set for dark by the
\* provider, and no fetch is started
C14_SystemChangeToDark ==
  [][ (/\ pEv'.op = "systemChange" /\ enableSystem
       /\ pTheme = SYSTEM_THEME /\ ~osDark /\ osDark')
        => /\ pResolved' = DARK_THEME
           /\ RootShows(pRoot', DARK_THEME)
           /\ pRoot'.by = "provider" /\ pRoot'.name = DARK_THEME
           /\ netCalls' = netCalls /\ regPending' = regPending ]_vars

\* C14 witness: the selection is system, light was applied, the OS turned dark
C14_Witness ==
  /\ pEv.op = "systemChange" /\ enableSystem /\ osDark
  /\ pTheme = SYSTEM_THEME /\ pResolved = DARK_THEME
  /\ pRoot.name = DARK_THEME

\* the theme name the bootstrap is to show: the persisted selection, else
\* the configured default; system resolved against the OS when enabled
BootTarget(stored) ==
  LET T0 == IF stored # None THEN stored ELSE DefaultTheme(enableSystem)
  IN IF T0 = SYSTEM_THEME /\ enableSystem
     THEN (IF osDark THEN DARK_THEME ELSE LIGHT_THEME) ELSE T0

\* C17: with storage readable, the bootstrap script sets the root class /
\* attribute to the value for T (persisted selection if any, else the
\* configured default, system resolved against the OS when system is
\* enabled), in the one step it runs in, and changes nothing else
C17_BootstrapSetsRoot ==
  [][ (pEv'.op = "bootstrap" /\ pStorageOk)
        => /\ pBoot.state = "none" /\ pBoot'.state = "done"
           /\ IF attribute = "class"
              THEN pRoot'.classes = pRoot.classes \cup {BootTarget(pStorage)}
              ELSE pRoot'.data = BootTarget(pStorage)
           /\ pRoot'.style = pRoot.style
           /\ UNCHANGED <<pTheme, pResolved, pStorage, netCalls, regPending>> ]_vars

\* C17 witness: the persisted selection is system and the OS prefers dark
C17_Witness ==
  /\ pEv.op = "bootstrap" /\ pBoot.state = "done"
  /\ pStorage = SYSTEM_THEME /\ enableSystem /\ osDark
  /\ pRoot.name = DARK_THEME /\ RootShows(pRoot, DARK_THEME)

\* C18: when reading localStorage throws, the bootstrap script does not
\* throw and still sets the root class / attribute from the configured
\* default theme
C18_BootstrapFallsBack ==
  (pEv.op = "bootstrap" /\ ~pStorageOk)
     => /\ pBoot.state \in {"done", "caught"}
        /\ IF attribute = "class" THEN BootTarget(None) \in pRoot.classes
           ELSE pRoot.data = BootTarget(None)

\* C19: the class / attribute the bootstrap set equals the one the provider
\* sets when it mounts, and once the provider has set the class / attribute
\* no other class remains on the root
C19_BootstrapMatchesProvider ==
  [][ /\ (pEv'.op = "mount" /\ pBoot.state = "done" /\ pRoot'.by = "provider")
           => pRoot'.name = pBoot.name
      /\ (pBoot'.state = "done" /\ pRoot'.by = "provider" /\ attribute = "class")
           => pRoot'.classes = {pRoot'.name} ]_vars

\* C20: a key with a theme-level prefix takes its root custom property from
\* the theme scope only: in the hook's Applier the root never holds a
\* mode-scope value for such a key, and once the runs for the resolved
\* preset have ended the key holds the preset's theme-scope value; in the
\* provider, after applyTheme(theme, colorMode) the key holds the theme's
\* theme-scope value
C20_ThemeScopeWins ==
  /\ \A k \in Keys : ThemeLevelKey(k) =>
       /\ dom.vars[k] \in {None} \cup {PresetOf(x).theme[k] : x \in {"uA", "css1"}}
       /\ (currentRegistryItem # Absent /\ applies = <<>>
             /\ currentRegistryItem.theme[k] # None)
            => dom.vars[k] = currentRegistryItem.theme[k]
  /\ pTokens # Absent =>
       \A k \in Keys : (ThemeLevelKey(k) /\ ThemeBody(pTokens.data).theme[k] # None)
                          => pRoot.style[k] = ThemeBody(pTokens.data).theme[k]

\* C15: the resolved mode is always light or dark: the hook's mode state
\* and ref, and the mode of every Applier invocation; the provider's
\* resolved theme is never the system sentinel and the colour mode it
\* applies tokens under is light or dark
C15_ModeIsLightOrDark ==
  /\ mode \in Modes /\ modeRef \in Modes
  /\ \A i \in 1..Len(applies) : applies[i].mode \in Modes
  /\ \A i \in 1..Len(ev.log) : ev.log[i].mode \in Modes
  /\ pResolved # SYSTEM_THEME
  /\ pTokens # Absent => pTokens.mode \in Modes

\* C16: when the persisted record does not parse, the hook's mount effect
\* completes, removes the record, and leaves the state an initialization
\* without a record has: no current theme, no resolved preset, mode light,
\* no error, not loading, nothing in flight, the document untouched
C16_CorruptRecordAsAbsent ==
  [][ (ev'.op = "mount" /\ storage = Corrupt)
        => /\ mounted' /\ storage' = Absent
           /\ currentTheme' = NoOption /\ currentRegistryItem' = Absent
           /\ mode' = "light" /\ modeRef' = "light"
           /\ error' = None /\ ~isLoading' /\ ~isApplyingRef'
           /\ sel' = Absent /\ adds' = <<>> /\ applies' = <<>>
           /\ dom' = dom /\ themes' = themes
           /\ ev'.log = <<>> ]_vars

\* C16 witness: the hook mounted on a record that does not parse
C16_Witness ==
  /\ ev.op = "mount" /\ ev.res = "corrupt"
  /\ mounted /\ persist /\ storage = Absent

\* C22: the document never holds more than one generated auxiliary
\* stylesheet (style[data-tweakcn-switcher]), whatever applies ran and in
\* whatever order they finished
C22_OneAuxStylesheet == Len(dom.aux) <= 1

\* C22 witness: a re-apply of a preset with an "@layer base" block finished
\* after an earlier apply of it had already put its stylesheet there
C22_Witness ==
  /\ ev.op = "microtask" /\ applies = <<>>
  /\ Len(dom.fontStyles) >= 2
  /\ dom.aux = <<"baseA">>

\* C23: the document never holds more than one font-override stylesheet
\* (style[data-tweakcn-switcher-font-vars]), applies with pending font
\* loads included
C23_OneFontOverride == Len(dom.fontStyles) <= 1

\* the content source of a catalog entry (its url, else its css text)
ContentOf(t) == IF t.url # None THEN t.url ELSE t.css

\* C24: no two catalog entries share a content source, and an addTheme
\* call (or its completion) for a content source the catalog already holds
\* leaves the catalog as it is, whatever name and id the new option has
C24_CatalogKeyedByContent ==
  /\ [](\A i, j \in 1..Len(themes) :
          i # j => ~SameContent(themes[i], ContentOf(themes[j])))
  /\ [][ (ev'.op \in {"addTheme", "addDone"} /\ ev'.res = "added"
           /\ \E i \in 1..Len(themes) : SameContent(themes[i], ev'.arg))
          => themes' = themes ]_vars

\* C24 witness: addTheme(uA) completed while the catalog held the default
\* option for uA (another id, another name): the catalog is that option
C24_Witness ==
  /\ ev.op = "addDone" /\ ev.res = "added" /\ ev.arg = "uA"
  /\ themes = <<DefaultA>>
  /\ DefaultA.id # <<"theme", RemoteTheme("uA").name>>
  /\ DefaultA.name # RemoteTheme("uA").name

C27_DarkBlockIsDarkScope ==
  (ev.op \in SelectOps /\ ev.res = "applied" /\ isCssCode(ev.arg)
   /\ currentRegistryItem # Absent)
    => \A k \in Keys :
         /\ CssSource(ev.arg).dark[k] # None
              => currentRegistryItem.dark[k] = CssSource(ev.arg).dark[k]
         /\ (CssSource(ev.arg).root[k] = None /\ CssSource(ev.arg).inline[k] = None)
              => currentRegistryItem.theme[k] = None

\* C28: a fetch failing on an unsuccessful HTTP status and a fetch failing
\* in the transport give their caller different outcomes: different error
\* messages from the URL fetcher (the former with the status), and
\* different results from ThemeRegistry.fetchTheme
C28_FailuresDistinguishable ==
  /\ FetchErrorMessage("http") # FetchErrorMessage("network")
  /\ \A i, j \in 1..Len(regLog) :
       (/\ regLog[i].op = "response" /\ regLog[i].res = "http"
        /\ regLog[j].op = "response" /\ regLog[j].res = "network")
         => regLog[i].value # regLog[j].value

\* C26: an accepted applyTheme call, or an addTheme call, whose URL fails
\* validation (empty, malformed percent-encoding, unparsable, not http(s))
\* starts no request and no Applier invocation, leaves the document, the
\* catalog, the selection and the persisted record as they are, and ends
\* failed with the validation reason as the error
C26_InvalidUrlRejectedEarly ==
  [][ (/\ ev'.op \in {"applyTheme", "addTheme"}
       /\ ev'.res # "dropped"
       /\ ~isCssCode(ev'.arg) /\ ~validateUrl(ev'.arg).valid)
        => /\ dom' = dom /\ applies' = applies /\ ev'.log = <<>>
           /\ sel' = sel /\ adds' = adds
           /\ themes' = themes /\ currentTheme' = currentTheme
           /\ currentRegistryItem' = currentRegistryItem /\ storage' = storage
           /\ ev'.res = "failed"
           /\ error' = validateUrl(ev'.arg).error /\ error' # None
           /\ error' \notin {HttpError, TransportError} ]_vars

\* C26 witness: a selection of the malformed-percent-encoding URL failed
\* with its validation reason while a theme was applied to the document
C26_Witness ==
  /\ ev.op = "applyTheme" /\ ev.arg = "badpct" /\ ev.res = "failed"
  /\ error = "Invalid URL: contains malformed characters. Please check the URL and try again."
  /\ dom.vars["background"] # None /\ sel = Absent

\* C25: no storage-adapter call throws; when the backing store is absent
\* or throws, get returns null, readStorage returns undefined, and set,
\* remove and writeStorage leave the stored value as it was
C25_StorageNeverThrows ==
  /\ ~stEv.threw
  /\ (lsKind # "ok" /\ stEv.op # "init")
       => /\ lsValue = stEv.before
          /\ stEv.op = "get" => stEv.ret = None
          /\ stEv.op = "readStorage" => stEv.ret = Undefined

\* C25 witness: storage.get returned null on a backing store that throws
\* although a value is stored
C25_Witness ==
  /\ lsKind = "throws" /\ lsValue = "dark"
  /\ stEv.op = "get" /\ stEv.ret = None /\ ~stEv.threw

\* C21: when the same (preset, mode) pair has been applied several times
\* in a row, each invocation returning before the next is called, the
\* document is what it was after the first of them: same root custom
\* properties, same class; one auxiliary stylesheet with the preset's
\* rule-set (when it has one); one font-override stylesheet (when the
\* preset has font-sans, none otherwise); the font link once
C21_ReapplyIdempotent ==
  (run = Absent /\ hist.n >= 1)
    => /\ doc = hist.first
       /\ Len(doc.aux) <= 1
       /\ hist.item.css # None => doc.aux = <<hist.item.css>>
       /\ doc.fontStyles = IF FontSansValue(hist.item) # None
                           THEN <<FontSansValue(hist.item)>> ELSE <<>>
       /\ FontSansValue(hist.item) # None => FontSansValue(hist.item) \in doc.links

\* C21 witness: the font preset was applied under dark at least twice in a
\* row
C21_Witness ==
  /\ run = Absent /\ hist.n >= 2
  /\ hist.item = RemoteTheme("uA") /\ hist.mode = "dark"
  /\ doc.fontStyles = <<"Inter">> /\ doc.aux = <<"baseA">> /\ doc.dark

\* the steps of one apply in the order the claim gives them
ClaimOrder(p) ==
  <<"theme">>
  \o (IF FontSansValue(p) # None THEN <<"font-load", "font-override">> ELSE <<"font-cleanup">>)
  \o <<"mode", "aux", "class">>

IsPrefix(a, b) == Len(a) <= Len(b) /\ SubSeq(b, 1, Len(a)) = a

\* the statement groups run so far, without the preliminary removal of the
\* previous override stylesheet (lines 111-115)
StepsOf(tr) == SelectSeq(tr, LAMBDA l : l # "clear")

C31_EmptyPresetOnlyTogglesClass ==
  (run = Absent /\ hist.n >= 1 /\ hist.item = EmptyPreset)
    => doc = [hist.start EXCEPT !.dark = (hist.mode = "dark")]

\* C31 (amended): a completed apply of the empty preset leaves the root
\* custom properties and the auxiliary stylesheet as they were and sets
\* the class "dark" from the mode; as for every preset without font-sans,
\* the font-override stylesheet found at its start and the font links are
\* removed
C31_EmptyPresetKeepsTokensAndAux ==
  (run = Absent /\ hist.n >= 1 /\ hist.item = EmptyPreset)
    => /\ doc.vars = hist.start.vars
       /\ doc.aux = hist.start.aux
       /\ doc.dark = (hist.mode = "dark")
       /\ doc.links = {}
       /\ doc.fontStyles =
            IF hist.start.fontStyles = <<>> THEN <<>> ELSE Tail(hist.start.fontStyles)

\* C31 witness: the empty preset was applied to a document that held
\* tokens, an auxiliary stylesheet, a font override and a font link
C31_Witness ==
  /\ run = Absent /\ hist.n >= 1 /\ hist.item = EmptyPreset
  /\ hist.start.fontStyles = <<"Inter">> /\ hist.start.links # {}
  /\ hist.start.aux = <<"baseA">> /\ hist.start.vars["radius"] = "r1"
  /\ doc.aux = <<"baseA">> /\ doc.fontStyles = <<>>

\* C32: after a completed apply the auxiliary stylesheets in the document
\* are exactly the one of the preset just applied: none when that preset
\* has no "@layer base" rule-set
C32_AuxIsOfLastPreset ==
  (run = Absent /\ hist.n >= 1)
    => doc.aux = IF hist.item.css # None THEN <<hist.item.css>> ELSE <<>>

\* C39: a fetchTheme call whose request ends in an unsuccessful status or
\* a transport failure is fulfilled with null and leaves the cache as it
\* was; and a fetchTheme call for a key the cache does not hold issues a
\* network request
C39_FetchThemeNeverRejects ==
  [][ regLog' # <<>> =>
        LET e == regLog'[Len(regLog')]
        IN /\ (regLog' # regLog /\ e.op = "response" /\ e.res # "ok")
                => /\ e.settled = "fulfilled" /\ e.value = None
                   /\ regCache' = regCache
           /\ (regLog' # regLog /\ e.op = "response" /\ e.res = "ok")
                => e.settled = "fulfilled"
           /\ (regLog' # regLog /\ e.op = "fetchTheme" /\ regCache[e.key] = None)
                => /\ e.res = "miss"
                   /\ netCalls'[e.key] = netCalls[e.key] + 1 ]_vars

\* C39 witness: after a request for a key failed in the transport, the next
\* fetchTheme call for that key issued a second request
C39_Witness ==
  LET n == Len(regLog)
  IN /\ n >= 2
     /\ regLog[n-1].op = "response" /\ regLog[n-1].res = "network"
     /\ regLog[n-1].value = None
     /\ regLog[n].op = "fetchTheme" /\ regLog[n].key = regLog[n-1].key
     /\ regLog[n].res = "miss"
     /\ netCalls[regLog[n].key] = 2

\* C38: every option of the catalog has an id no other option has, after
\* any sequence of addTheme and selectTheme calls (two different URLs whose
\* documents carry the same name included), so removeTheme(id) removes
\* exactly one option
C38_CatalogIdsDistinct ==
  \A i, j \in 1..Len(themes) : i # j => themes[i].id # themes[j].id

\* C34: whenever a persisted record exists, it is an object with a mode, a
\* name and exactly one of url and css, after any sequence of selectTheme,
\* setMode and removeTheme calls (and of the other controller operations)
C34_PersistedRecordWellFormed ==
  (storage # Absent /\ storage # Corrupt)
    => /\ storage.mode # None
       /\ storage.name # None
       /\ (storage.url # None) # (storage.css # None)
       /\ storage.url # None => ~isCssCode(storage.url)
       /\ storage.css # None => isCssCode(storage.css)

\* C34 witness: after a selection of CSS text, setMode("dark") made the
\* controller rewrite the persisted record with the new mode
C34_Witness ==
  /\ ev.op = "setMode" /\ mode = "dark"
  /\ storage # Absent /\ storage # Corrupt
  /\ storage.css = "css1" /\ storage.url = None /\ storage.mode = "dark"
  /\ currentTheme # NoOption /\ currentTheme.css = "css1"

\* C36: when the write of the persisted record fails, the controller does
\* not report a failure: the error stays null
C36_PersistFailureNotReported ==
  error # QuotaError

\* C37: a selectTheme / applyTheme call that ends failed leaves the
\* persisted record, the current selection, the resolved preset and the
\* catalog as they were before the call
C37_FailedSelectChangesNothing ==
  [][ (ev' # ev /\ ev'.op \in {"applyTheme", "applyThemeOption", "fetchDone", "fontLoaded"}
         /\ ev'.res = "failed")
        => /\ storage' = storage /\ currentTheme' = currentTheme
           /\ currentRegistryItem' = currentRegistryItem /\ themes' = themes ]_vars

\* the root custom properties and the dark class are those of preset p
\* applied under mode m
ShowsPreset(d, p, m) ==
  /\ d.dark = (m = "dark")
  /\ \A k \in Keys :
       /\ p.theme[k] # None => d.vars[k] = p.theme[k]
       /\ (ModeVars(p, m)[k] # None /\ ~ThemeLevelKey(k)) => d.vars[k] = ModeVars(p, m)[k]

\* the post-state of a step is that of a controller restored to content x
\* under mode m
RestoredTo(x, m) ==
  /\ mode' = m
  /\ currentRegistryItem' = PresetOf(x)
  /\ currentTheme' # NoOption /\ SameContent(currentTheme', x)
  /\ \E i \in 1..Len(themes') : themes'[i] = currentTheme'
  /\ storage' = PersistedRecord(x, m, PresetOf(x).name)
  /\ applies' = <<>> => ShowsPreset(dom', PresetOf(x), m)

\* C40: a fresh controller mounted on a record a controller wrote after
\* applying x under mode m (m light or dark) ends, when the resolution the
\* mount started completes, with mode m, x applied under m, the current
\* selection being the catalog option with content x, and the record still
\* describing x and m
C40_PersistRestoreRoundTrip ==
  [][ /\ (ev'.op = "mount" /\ ev'.res = "applied" /\ storage.mode \in Modes)
          => RestoredTo(StoredContent(storage), storage.mode)
      /\ (/\ sel # Absent /\ sel.override # None /\ sel.override \in Modes
          /\ mode = sel.override
          /\ sel' = Absent /\ ev'.op \in {"fetchDone", "fontLoaded"}
          /\ ev'.res = "applied")
          => RestoredTo(sel.arg, sel.override) ]_vars

\* C40 witness: the mount on the record of CSS text under mode light
\* completed: the text is the selection, in the catalog, applied under
\* light, and the record describes it
C40_Witness ==
  /\ ev.op = "mount" /\ ev.res = "applied" /\ ev.arg = "css1"
  /\ mode = "light" /\ applies = <<>>
  /\ currentTheme # NoOption /\ currentTheme.css = "css1"
  /\ \E i \in 1..Len(themes) : themes[i] = currentTheme
  /\ storage = PersistedRecord("css1", "light", "custom-css-theme")
  /\ ShowsPreset(dom, PresetOf("css1"), "light")

\* C35: every accepted applyTheme call eventually releases the Resolving
\* guard and sets the loading flag to false, on success and on failure,
\* given that fetches and font loads complete; while the guard is held the
\* loading flag is true; a dropped call leaves the guard and the flag as
\* they were
C35_GuardEventuallyReleased ==
  /\ [](isApplyingRef => isLoading)
  /\ [][ev'.res = "dropped" => (isApplyingRef' = isApplyingRef /\ isLoading' = isLoading)]_vars
  /\ (isApplyingRef ~> (~isApplyingRef /\ ~isLoading))

\* C35 witness: the request of an accepted call failed and the guard and
\* the loading flag are released
C35_Witness ==
  /\ ev.op = "fetchDone" /\ ev.res = "failed"
  /\ error \in {HttpError, TransportError}
  /\ ~isApplyingRef /\ ~isLoading /\ sel = Absent

\* C33: in ThemeProvider, the response of a fetch started for an older
\* selection that arrives after a newer selection has been applied changes
\* neither the root's class / attribute, nor its custom properties, nor the
\* resolved theme
C33_StaleResponseIgnored ==
  [][ (/\ pEv'.op = "response" /\ pEv' # pEv
       /\ pResolved # None /\ pEv'.arg # pResolved
       /\ RootShows(pRoot, pResolved))
        => /\ pRoot'.classes = pRoot.classes /\ pRoot'.data = pRoot.data
           /\ pRoot'.style = pRoot.style
           /\ pResolved' = pResolved ]_vars

====
